---- MODULE Spec2Model ----
(***************************************************************************)
(* Model of the homelab-kirill-datasource backend plugin.                  *)
(*                                                                         *)
(* Two builds of package main are in the repository: pkg/datasource.go     *)
(* (the complete one: settings, health probe, metrics scrape) and an       *)
(* earlier iteration (unnamed/part_000).  The variable `program` says      *)
(* which of the two is the running process; models.LoadPluginSettings      *)
(* (unnamed/part_001) is shared by both.                                   *)
(*                                                                         *)
(* Go strings that the code inspects byte by byte (metric names, scrape    *)
(* documents) are sequences of one-character strings.  A nil pointer is a  *)
(* record whose isNil field is TRUE.                                       *)
(***************************************************************************)
EXTENDS Integers, Sequences, FiniteSets, TLC

\* ------------------------------------------------------------------ bounds
NumThreads == 2      \* host goroutines calling into the plugin concurrently
MaxCalls == 2        \* calls of one entry point in a run (caps the counters)
MaxQueries == 2      \* queries in one QueryData batch
MaxLines == 2        \* lines in one scrape document

\* ------------------------------------------------------- program constants
StatusOK == 200      \* net/http.StatusOK

Threads == 1..NumThreads

\* ------------------------------------------------------------ pkg/models

NilSecrets == [isNil |-> TRUE, ApiKey |-> ""]
NilSettings == [isNil |-> TRUE, Path |-> "", Secrets |-> NilSecrets]

\* The decrypted secret maps the host may hand over (map[string]string).
SecretKeys == {"apiKey"}
SecretValues == {"", "k"}
SecretMaps == UNION {[D -> SecretValues] : D \in SUBSET SecretKeys}

\* apiKey, exists := source["apiKey"]
MapLookup(m, k) ==
    IF k \in DOMAIN m THEN [val |-> m[k], exists |-> TRUE]
                      ELSE [val |-> "", exists |-> FALSE]

\* An error is the chain of messages fmt.Errorf's %w builds, outermost
\* first; nil is the empty chain.
NoError == <<>>
Errorf(msg, err) == <<msg>> \o err

\* A loader that tests only the presence of the key, not its value.
loadSecretPluginSettings_presenceOnly(source) ==
    LET l == MapLookup(source, "apiKey") IN
    IF ~l.exists
      THEN [err |-> <<"apiKey is missing or empty">>, val |-> NilSecrets]
      ELSE [err |-> NoError, val |-> [isNil |-> FALSE, ApiKey |-> l.val]]

loadSecretPluginSettings(source) ==
    LET l == MapLookup(source, "apiKey") IN
    IF ~l.exists \/ l.val = ""
      THEN [err |-> <<"apiKey is missing or empty">>, val |-> NilSecrets]
      ELSE [err |-> NoError, val |-> [isNil |-> FALSE, ApiKey |-> l.val]]

\* The JSONData blobs of the instance settings, and what encoding/json makes
\* of each when unmarshalled into PluginSettings{Path string `json:"path"`}.
JSONDataBlobs == {"", "{\"path\":\"/m\"}", "{\"path\":5}"}

UnmarshalPluginSettings(blob) ==
    CASE blob = "{\"path\":\"/m\"}" -> [err |-> NoError, Path |-> "/m"]
      [] blob = "{\"path\":5}"      -> [err |-> <<"json: cannot unmarshal number">>, Path |-> ""]
      [] OTHER                      -> [err |-> <<"unexpected end of JSON input">>, Path |-> ""]

\* The connection options of the settings: good ones, ones for which
\* settings.HTTPClientOptions(ctx) fails, ones httpclient.New(opts) rejects.
HTTPOptions == {"ok", "HTTPClientOptions fails", "httpclient.New fails"}

\* backend.DataSourceInstanceSettings: the UID, which only the first check of
\* pkg/datasource.go reads, and the fields both builds read afterwards.
UIDs == {"", "uid1"}
InstanceSettings ==
    [JSONData : JSONDataBlobs,
     DecryptedSecureJSONData : SecretMaps,
     httpOptions : HTTPOptions]

LoadPluginSettings(source) ==
    LET u == UnmarshalPluginSettings(source.JSONData)
        s == loadSecretPluginSettings(source.DecryptedSecureJSONData)
    IN  IF u.err # NoError
          THEN [err |-> Errorf("could not unmarshal PluginSettings json", u.err),
                val |-> NilSettings]
          ELSE IF s.err # NoError
            THEN [err |-> Errorf("failed to load secret plugin settings", s.err),
                  val |-> NilSettings]
            ELSE [err |-> NoError,
                  val |-> [isNil |-> FALSE, Path |-> u.Path, Secrets |-> s.val]]

\* ------------------------------------------------------------------- state
VARIABLES
    program,             \* which build of package main is the process
    registry,            \* collectors in prometheus.DefaultRegisterer
    registerMetricsOnce, \* the sync.Once: [done, m] (m: goroutine holding its mutex, 0 free)
    ds,                  \* the bridge instance the host currently holds
    pc,                  \* where each host goroutine is
    frame,               \* the locals of the call each goroutine is in
    ret,                 \* the return the last step made, if it was one: result and locals
    healthCheckTotal,    \* the counter's value
    healthCheckDuration, \* the histogram's number of observations
    queriesTotal         \* the counter vector's value, summed over its labels

vars == <<program, registry, registerMetricsOnce, ds, pc, frame, ret,
          healthCheckTotal, healthCheckDuration, queriesTotal>>

Programs == {"datasource.go", "part_000"}

\* *testDataSource: httpClient is TRUE for a non-nil *http.Client.
NoInstance == [exists |-> FALSE, httpClient |-> FALSE, settings |-> NilSettings,
               origin |-> "none"]

ApiKeys == {"", "k"}
SecretsValues == {NilSecrets} \cup {[isNil |-> FALSE, ApiKey |-> k] : k \in ApiKeys}
SettingsValues == {NilSettings} \cup
    {[isNil |-> FALSE, Path |-> "/m", Secrets |-> s] : s \in SecretsValues}

\* Every value of the struct type.  newDataSource builds only those with a
\* transport, settings and a non-empty key; the others are the receivers the
\* nil checks of CheckHealth are written for.
LiteralInstances ==
    {[exists |-> TRUE, httpClient |-> c, settings |-> s, origin |-> "literal"] :
        c \in BOOLEAN, s \in SettingsValues}

\* ---------------------------------------------------------- HTTP requests
NoHeader == [present |-> FALSE, value |-> <<>>]
NoRequest == [isNil |-> TRUE, url |-> "", ctx |-> "", Authorization |-> NoHeader]

\* ------------------------------------------------------------ call results
NoHealth == [isNil |-> TRUE, Status |-> "", Message |-> <<>>]
NoResponse == [isNil |-> TRUE, Responses |-> <<>>]

\* What httpClient.Do / Get hands back: an error, or a response.
NoResult == [err |-> "", StatusCode |-> 0, Status |-> "", Body |-> <<>>, readErr |-> FALSE]

\* A call's locals: the receiver, the context argument, the request built,
\* the number of requests handed to the transport, whether the caller has
\* canceled its context, what the transport returned, and QueryData's batch
\* and metric name, and newDataSource's settings as far as it has read them.
\* The zero value of backend.DataSourceInstanceSettings.
ZeroSettings == [JSONData |-> "", DecryptedSecureJSONData |-> <<>>,
                 httpOptions |-> "ok"]

EmptyFrame == [inst |-> NoInstance, ctx |-> "", req |-> NoRequest, sent |-> 0,
               canceled |-> FALSE, result |-> NoResult,
               batch |-> <<>>, metricName |-> <<>>, settings |-> ZeroSettings]

\* A return: the entry point, a panic or the returned error and values, and
\* the locals the call ended with.
NoRet == [op |-> "", panic |-> "", err |-> NoError, health |-> NoHealth,
          inst |-> NoInstance, resp |-> NoResponse, frame |-> EmptyFrame]

\* The process at start, the host holding the instance d.
StartWith(d) ==
    /\ program \in Programs
    /\ registry = {}
    /\ registerMetricsOnce = [done |-> FALSE, m |-> 0]
    /\ ds = d
    /\ pc = [t \in Threads |-> "idle"]
    /\ frame = [t \in Threads |-> EmptyFrame]
    /\ ret = NoRet
    /\ healthCheckTotal = 0
    /\ healthCheckDuration = 0
    /\ queriesTotal = 0

\* The process starts with no instance: newDataSource builds the first.
Init == StartWith(NoInstance)

\* A start that hands CheckHealth every value of the receiver's type, a
\* superset of what newDataSource builds; used to check what CheckHealth
\* guarantees whatever its receiver.
InitReceivers == \E d \in {NoInstance} \cup LiteralInstances : StartWith(d)

\* The host takes what the last call returned; it starts no call before.
HostReceives ==
    /\ ret # NoRet
    /\ ret' = NoRet
    /\ UNCHANGED <<program, registry, registerMetricsOnce, ds, pc, frame,
                   healthCheckTotal, healthCheckDuration, queriesTotal>>

\* --------------------------------------------------- metrics registration

\* prometheus.MustRegister(cs...): registers the collectors in order and
\* panics at the first one the registry already holds.
RECURSIVE MustRegister(_, _)
MustRegister(reg, cs) ==
    IF cs = <<>> THEN [registry |-> reg, panic |-> ""]
    ELSE IF Head(cs) \in reg
      THEN [registry |-> reg, panic |-> "AlreadyRegisteredError"]
      ELSE MustRegister(reg \cup {Head(cs)}, Tail(cs))

\* The collectors the Once's function registers in each build.
OnceCollectors ==
    IF program = "datasource.go"
      THEN <<"queriesTotal", "healthCheckTotal", "healthCheckDuration">>
      ELSE <<"queriesTotal">>

\* sync.Once.Do, fast path: done is read without the mutex.
OnceDoFast(t) ==
    /\ pc[t] = "once"
    /\ pc' = [pc EXCEPT ![t] = IF registerMetricsOnce.done THEN "afterOnce" ELSE "onceLock"]
    /\ ret' = NoRet
    /\ UNCHANGED <<program, registry, registerMetricsOnce, ds, frame,
                   healthCheckTotal, healthCheckDuration, queriesTotal>>

\* sync.Once.doSlow: take the mutex and read done again.
OnceDoLock(t) ==
    /\ pc[t] = "onceLock"
    /\ registerMetricsOnce.m = 0
    /\ IF registerMetricsOnce.done
         THEN /\ pc' = [pc EXCEPT ![t] = "afterOnce"]
              /\ UNCHANGED registerMetricsOnce
         ELSE /\ pc' = [pc EXCEPT ![t] = "onceF"]
              /\ registerMetricsOnce' = [registerMetricsOnce EXCEPT !.m = t]
    /\ ret' = NoRet
    /\ UNCHANGED <<program, registry, ds, frame,
                   healthCheckTotal, healthCheckDuration, queriesTotal>>

\* The Once's function runs; done is stored and the mutex released by the
\* deferred calls, also when the function panics.
registerMetrics(t) ==
    /\ pc[t] = "onceF"
    /\ LET r == MustRegister(registry, OnceCollectors) IN
       /\ registry' = r.registry
       /\ registerMetricsOnce' = [done |-> TRUE, m |-> 0]
       /\ IF r.panic # ""
            THEN /\ pc' = [pc EXCEPT ![t] = "idle"]
                 /\ ret' = [NoRet EXCEPT !.op = "newDataSource", !.panic = r.panic,
                                         !.frame = frame[t]]
                 /\ frame' = [frame EXCEPT ![t] = EmptyFrame]
            ELSE /\ pc' = [pc EXCEPT ![t] = "afterOnce"]
                 /\ ret' = NoRet
                 /\ UNCHANGED frame
    /\ UNCHANGED <<program, ds, healthCheckTotal, healthCheckDuration, queriesTotal>>

\* ---------------------------------------------------------- newDataSource

\* The instance both builds assemble once client and settings are there.
BuildInstance(settings) ==
    [exists |-> TRUE, httpClient |-> TRUE,
     settings |-> LoadPluginSettings(settings).val, origin |-> "newDataSource"]

\* The error newDataSource returns for these settings after the UID check,
\* nil when it builds an instance (the order of the three fallible steps).
BuildError(settings) ==
    IF settings.httpOptions = "HTTPClientOptions fails" THEN <<"HTTPClientOptions">>
    ELSE IF settings.httpOptions = "httpclient.New fails" THEN <<"httpclient.New">>
    ELSE IF LoadPluginSettings(settings).err # NoError
      THEN Errorf("failed to load plugin settings", LoadPluginSettings(settings).err)
      ELSE NoError

ReturnNew(t, settings, err, inst) ==
    /\ pc' = [pc EXCEPT ![t] = "idle"]
    /\ frame' = [frame EXCEPT ![t] = EmptyFrame]
    /\ ret' = [NoRet EXCEPT !.op = "newDataSource", !.err = err, !.inst = inst,
                            !.frame = [EmptyFrame EXCEPT !.settings = settings]]
    /\ ds' = IF err = NoError THEN inst ELSE ds

\* pkg/datasource.go lines 75-80: the check of settings.UID, then
\* registerMetrics().  uid is the UID of the settings argument, the only
\* field read before the Once; a call refused here has read no other.
newDataSource_Begin(t, uid) ==
    /\ program = "datasource.go"
    /\ pc[t] = "idle"
    /\ ret = NoRet
    /\ IF uid = ""
         THEN ReturnNew(t, ZeroSettings,
                        <<"data source instance settings cannot be nil">>, NoInstance)
         ELSE /\ pc' = [pc EXCEPT ![t] = "once"]
              /\ frame' = [frame EXCEPT ![t] = EmptyFrame]
              /\ ret' = NoRet
              /\ UNCHANGED ds
    /\ UNCHANGED <<program, registry, registerMetricsOnce,
                   healthCheckTotal, healthCheckDuration, queriesTotal>>

\* What follows the Once.  pkg/datasource.go lines 82-103: client options,
\* client, plugin settings, instance; settings is the call's argument, and
\* nothing has read the fields used here before this point, so they are
\* drawn here.  unnamed/part_000 lines 69-71: the instance built before the
\* registration is returned.
newDataSource_Finish(t, settings) ==
    /\ pc[t] = "afterOnce"
    /\ IF program = "datasource.go"
         THEN LET e == BuildError(settings) IN
              ReturnNew(t, settings, e,
                        IF e = NoError THEN BuildInstance(settings) ELSE NoInstance)
         ELSE ReturnNew(t, frame[t].settings, NoError, frame[t].inst)
    /\ UNCHANGED <<program, registry, registerMetricsOnce,
                   healthCheckTotal, healthCheckDuration, queriesTotal>>

\* unnamed/part_000: client options, client, plugin settings and the
\* instance come first (lines 41-62).
newDataSource_part000_Begin(t, settings) ==
    /\ program = "part_000"
    /\ pc[t] = "idle"
    /\ ret = NoRet
    /\ LET e == BuildError(settings) IN
       IF e # NoError
         THEN ReturnNew(t, settings, e, NoInstance)
         ELSE /\ pc' = [pc EXCEPT ![t] = "mustRegister"]
              /\ frame' = [frame EXCEPT ![t] =
                             [EmptyFrame EXCEPT !.inst = BuildInstance(settings),
                                                !.settings = settings]]
              /\ ret' = NoRet
              /\ UNCHANGED ds
    /\ UNCHANGED <<program, registry, registerMetricsOnce,
                   healthCheckTotal, healthCheckDuration, queriesTotal>>

\* unnamed/part_000 line 63: prometheus.MustRegister(queriesTotal), outside
\* the Once.
newDataSource_part000_MustRegister(t) ==
    /\ program = "part_000"
    /\ pc[t] = "mustRegister"
    /\ LET r == MustRegister(registry, <<"queriesTotal">>) IN
       /\ registry' = r.registry
       /\ IF r.panic # ""
            THEN /\ pc' = [pc EXCEPT ![t] = "idle"]
                 /\ ret' = [NoRet EXCEPT !.op = "newDataSource", !.panic = r.panic,
                                         !.frame = frame[t]]
                 /\ frame' = [frame EXCEPT ![t] = EmptyFrame]
            ELSE /\ pc' = [pc EXCEPT ![t] = "once"]
                 /\ ret' = NoRet
                 /\ UNCHANGED frame
    /\ UNCHANGED <<program, registerMetricsOnce, ds,
                   healthCheckTotal, healthCheckDuration, queriesTotal>>

\* ------------------------------------------------------------ CheckHealth

\* The context argument: a nil context.Context, the one input for which
\* http.NewRequestWithContext fails, or a live one the caller may cancel
\* (or never cancels).
Contexts == {"nil", "live"}

Health(status, message) == [isNil |-> FALSE, Status |-> status, Message |-> message]

\* http.NewRequestWithContext(ctx, GET, <constant URL>, nil) fails on a nil
\* context only; http.NewRequest uses context.Background() and cannot fail here.
NewRequestWithContext(ctx, url) ==
    IF ctx = "nil"
      THEN [err |-> "net/http: nil Context", req |-> NoRequest]
      ELSE [err |-> "",
            req |-> [isNil |-> FALSE, url |-> url, ctx |-> "caller",
                     Authorization |-> NoHeader]]

NewRequest(url) ==
    [err |-> "",
     req |-> [isNil |-> FALSE, url |-> url, ctx |-> "background",
              Authorization |-> NoHeader]]

\* req.Header.Set("Authorization", "Bearer "+apiKey)
SetAuthorization(req, apiKey) ==
    [req EXCEPT !.Authorization = [present |-> TRUE, value |-> <<"Bearer ", apiKey>>]]

\* A CheckHealth that forgets the API key check and sends the request with
\* whatever the settings hold.
CheckHealthLocal_noKeyCheck(inst, ctx) ==
    IF inst.settings.isNil
      THEN [send |-> FALSE, panic |-> "", err |-> NoError, req |-> NoRequest,
            health |-> Health("ERROR", <<"Data source settings are not initialized">>)]
    ELSE IF ~inst.httpClient
      THEN [send |-> FALSE, panic |-> "", err |-> NoError, req |-> NoRequest,
            health |-> Health("ERROR", <<"HTTP client is not initialized">>)]
    ELSE LET r == NewRequestWithContext(ctx, "http://localhost:3000/api/health") IN
      IF r.err # ""
        THEN [send |-> FALSE, panic |-> "", err |-> <<r.err>>, req |-> NoRequest,
              health |-> Health("ERROR", <<"Failed to create health check request">>)]
        ELSE [send |-> TRUE, panic |-> "", err |-> NoError, health |-> NoHealth,
              req |-> SetAuthorization(r.req, inst.settings.Secrets.ApiKey)]

\* pkg/datasource.go lines 117-149: everything CheckHealth does before the
\* request goes out.  send: the request is handed to httpClient.Do.
CheckHealthLocal(inst, ctx) ==
    IF inst.settings.isNil
      THEN [send |-> FALSE, panic |-> "", err |-> NoError, req |-> NoRequest,
            health |-> Health("ERROR", <<"Data source settings are not initialized">>)]
    ELSE IF ~inst.httpClient
      THEN [send |-> FALSE, panic |-> "", err |-> NoError, req |-> NoRequest,
            health |-> Health("ERROR", <<"HTTP client is not initialized">>)]
    ELSE LET r == NewRequestWithContext(ctx, "http://localhost:3000/api/health") IN
      IF r.err # ""
        THEN [send |-> FALSE, panic |-> "", err |-> <<r.err>>, req |-> NoRequest,
              health |-> Health("ERROR", <<"Failed to create health check request">>)]
      ELSE IF inst.settings.Secrets.isNil \/ inst.settings.Secrets.ApiKey = ""
        THEN [send |-> FALSE, panic |-> "", err |-> NoError, req |-> NoRequest,
              health |-> Health("ERROR", <<"Missing API key in plugin settings">>)]
        ELSE [send |-> TRUE, panic |-> "", err |-> NoError, health |-> NoHealth,
              req |-> SetAuthorization(r.req, inst.settings.Secrets.ApiKey)]

\* unnamed/part_000 lines 77-99.  The context argument is ignored, and
\* ds.settings is dereferenced without a nil check.
CheckHealthLocal_part000(inst) ==
    IF ~inst.httpClient
      THEN [send |-> FALSE, panic |-> "", err |-> NoError, req |-> NoRequest,
            health |-> Health("ERROR", <<"httpClient is nil">>)]
    ELSE LET r == NewRequest("http://localhost:3000/api/plugins/homelab-kirill-datasource/metrics") IN
      IF r.err # ""
        THEN [send |-> FALSE, panic |-> "", err |-> <<r.err>>, req |-> NoRequest,
              health |-> Health("ERROR", <<"Failed to create request">>)]
      ELSE IF inst.settings.isNil
        THEN [send |-> FALSE, panic |-> "nil pointer dereference", err |-> NoError,
              req |-> NoRequest, health |-> NoHealth]
      ELSE IF ~inst.settings.Secrets.isNil /\ inst.settings.Secrets.ApiKey # ""
        THEN [send |-> TRUE, panic |-> "", err |-> NoError, health |-> NoHealth,
              req |-> SetAuthorization(r.req, inst.settings.Secrets.ApiKey)]
        ELSE [send |-> FALSE, panic |-> "", err |-> NoError, req |-> NoRequest,
              health |-> Health("ERROR", <<"API Key is missing">>)]

\* What the liveness endpoint may answer, and what the transport may report.
StatusLine ==
    [c \in {200, 204, 299, 404, 500} |->
        CASE c = 200 -> "200 OK"
          [] c = 204 -> "204 No Content"
          [] c = 299 -> "299 "
          [] c = 404 -> "404 Not Found"
          [] OTHER   -> "500 Internal Server Error"]
StatusCodes == DOMAIN StatusLine
TransportErrors == {"connection refused", "context canceled"}

\* The outcomes httpClient.Do(req) can have for goroutine t's request: a
\* transport failure, the caller's cancellation (only a request bound to the
\* caller's context sees it), or a response.
DoOutcomes(t) ==
    {[NoResult EXCEPT !.err = "connection refused"]}
    \cup (IF frame[t].canceled /\ frame[t].req.ctx = "caller"
            THEN {[NoResult EXCEPT !.err = "context canceled"]} ELSE {})
    \cup {[NoResult EXCEPT !.StatusCode = c, !.Status = StatusLine[c]] : c \in StatusCodes}

\* pkg/datasource.go lines 151-171: the verdict for what Do returned.
CheckHealthVerdict(r) ==
    IF r.err # ""
      THEN [err |-> NoError, health |-> Health("ERROR", <<"Request error: ", r.err>>)]
    ELSE IF r.StatusCode # StatusOK
      THEN [err |-> NoError, health |-> Health("ERROR", <<"Unexpected response: ", r.Status>>)]
      ELSE [err |-> NoError, health |-> Health("OK", <<"Datasource is healthy">>)]

\* unnamed/part_000 lines 101-124: a transport failure is also returned as
\* the call's error.
CheckHealthVerdict_part000(r) ==
    IF r.err # ""
      THEN [err |-> <<r.err>>,
            health |-> Health("ERROR", <<"Failed to reach Grafana API: ", r.err>>)]
    ELSE IF r.StatusCode # StatusOK
      THEN [err |-> NoError, health |-> Health("ERROR", <<"Unexpected response: ", r.Status>>)]
      ELSE [err |-> NoError, health |-> Health("OK", <<"Datasource is healthy">>)]

\* CheckHealth is entered: the counter is incremented (datasource.go), the
\* local checks run, and either the call returns, the histogram observing it
\* on the way out, or the request is handed to the transport.
CheckHealth(t, ctx) ==
    /\ pc[t] = "idle"
    /\ ret = NoRet
    /\ ds.exists
    /\ program = "datasource.go" => healthCheckTotal < MaxCalls
    /\ LET l == IF program = "datasource.go" THEN CheckHealthLocal(ds, ctx)
                                             ELSE CheckHealthLocal_part000(ds)
           f == [EmptyFrame EXCEPT !.inst = ds, !.ctx = ctx, !.req = l.req]
       IN
       /\ healthCheckTotal' =
              IF program = "datasource.go" THEN healthCheckTotal + 1 ELSE healthCheckTotal
       /\ IF l.send
            THEN /\ pc' = [pc EXCEPT ![t] = "Do"]
                 /\ frame' = [frame EXCEPT ![t] = [f EXCEPT !.sent = 1]]
                 /\ ret' = NoRet
                 /\ UNCHANGED healthCheckDuration
            ELSE /\ pc' = [pc EXCEPT ![t] = "idle"]
                 /\ frame' = [frame EXCEPT ![t] = EmptyFrame]
                 /\ ret' = [NoRet EXCEPT !.op = "CheckHealth", !.panic = l.panic,
                                         !.err = l.err, !.health = l.health,
                                         !.frame = f]
                 /\ healthCheckDuration' =
                        IF program = "datasource.go" THEN healthCheckDuration + 1
                                                     ELSE healthCheckDuration
    /\ UNCHANGED <<program, registry, registerMetricsOnce, ds, queriesTotal>>

\* httpClient.Do returns and CheckHealth classifies what it got.
CheckHealth_Do(t, r) ==
    /\ pc[t] = "Do"
    /\ r \in DoOutcomes(t)
    /\ LET v == IF program = "datasource.go" THEN CheckHealthVerdict(r)
                                             ELSE CheckHealthVerdict_part000(r)
       IN
       /\ pc' = [pc EXCEPT ![t] = "idle"]
       /\ frame' = [frame EXCEPT ![t] = EmptyFrame]
       /\ ret' = [NoRet EXCEPT !.op = "CheckHealth", !.err = v.err, !.health = v.health,
                               !.frame = [frame[t] EXCEPT !.result = r]]
       /\ healthCheckDuration' =
              IF program = "datasource.go" THEN healthCheckDuration + 1
                                           ELSE healthCheckDuration
    /\ UNCHANGED <<program, registry, registerMetricsOnce, ds, healthCheckTotal,
                   queriesTotal>>

\* The caller cancels the context of a call that is waiting for the remote end.
CancelContext(t) ==
    /\ pc[t] \in {"Do", "Get"}
    /\ frame[t].ctx = "live"
    /\ ~frame[t].canceled
    /\ frame' = [frame EXCEPT ![t].canceled = TRUE]
    /\ ret' = NoRet
    /\ UNCHANGED <<program, registry, registerMetricsOnce, ds, pc,
                   healthCheckTotal, healthCheckDuration, queriesTotal>>

\* ------------------------------------------------- lifecycle specification

Construction ==
    \E t \in Threads :
        \/ \E uid \in UIDs : newDataSource_Begin(t, uid)
        \/ \E s \in InstanceSettings :
              \/ newDataSource_Finish(t, s)
              \/ newDataSource_part000_Begin(t, s)
        \/ newDataSource_part000_MustRegister(t)
        \/ OnceDoFast(t)
        \/ OnceDoLock(t)
        \/ registerMetrics(t)

Probing ==
    \E t \in Threads :
        \/ \E ctx \in Contexts : CheckHealth(t, ctx)
        \/ \E r \in DoOutcomes(t) : CheckHealth_Do(t, r)
        \/ CancelContext(t)

Next == Construction \/ Probing \/ HostReceives

Spec == Init /\ [][Next]_vars

SpecReceivers == InitReceivers /\ [][Next]_vars

\* -------------------------------------------------------------- QueryData

\* Go strings as sequences of one-character strings.
Str(a) == <<a>>
Space == " "
Newline == "\n"
Digits == <<"0", "1", "2", "3", "4", "5", "6", "7", "8", "9">>

\* strings.HasPrefix(s, prefix)
HasPrefix(s, prefix) ==
    /\ Len(prefix) <= Len(s)
    /\ SubSeq(s, 1, Len(prefix)) = prefix

\* strings.Split(s, sep) for a one-byte separator: the pieces between the
\* separators, the empty ones too; an empty s gives one empty piece.
RECURSIVE SplitFrom(_, _, _)
SplitFrom(s, sep, piece) ==
    IF s = <<>> THEN <<piece>>
    ELSE IF Head(s) = sep THEN <<piece>> \o SplitFrom(Tail(s), sep, <<>>)
    ELSE SplitFrom(Tail(s), sep, Append(piece, Head(s)))
Split(s, sep) == SplitFrom(s, sep, <<>>)

\* strings.Fields(s): the maximal runs of non-space bytes.
RECURSIVE FieldsFrom(_, _)
FieldsFrom(s, field) ==
    IF s = <<>> THEN (IF field = <<>> THEN <<>> ELSE <<field>>)
    ELSE IF Head(s) \in {Space, Newline}
      THEN (IF field = <<>> THEN <<>> ELSE <<field>>) \o FieldsFrom(Tail(s), <<>>)
      ELSE FieldsFrom(Tail(s), Append(field, Head(s)))
Fields(s) == FieldsFrom(s, <<>>)

IsDigit(c) == \E d \in DOMAIN Digits : Digits[d] = c
DigitValue(c) == (CHOOSE d \in DOMAIN Digits : Digits[d] = c) - 1

\* strconv.ParseFloat on the value tokens of the model's alphabet (letters
\* and digits): a non-empty run of digits parses, anything else does not.
RECURSIVE ParseDigits(_, _)
ParseDigits(s, acc) ==
    IF s = <<>> THEN acc ELSE ParseDigits(Tail(s), 10 * acc + DigitValue(Head(s)))
ParseFloat(value) ==
    IF value # <<>> /\ \A i \in DOMAIN value : IsDigit(value[i])
      THEN [err |-> "", f |-> ParseDigits(value, 0)]
      ELSE [err |-> "strconv.ParseFloat: invalid syntax", f |-> 0]

\* toFloat: the parsed number, 0 when the token does not parse.
toFloat(value) == IF ParseFloat(value).err = "" THEN ParseFloat(value).f ELSE 0

\* The query payloads (query.JSON) and what json.Unmarshal makes of each
\* when decoding into Query{Metric string `json:"metric"`}.
QueryJSONs == {"not json", "{\"metric\":\"\"}", "{\"metric\":\"a\"}",
               "{\"metric\":\"ab\"}"}

UnmarshalQuery(json) ==
    CASE json = "{}"                  -> [err |-> NoError, Metric |-> <<>>]
      [] json = "{\"metric\":\"\"}"   -> [err |-> NoError, Metric |-> <<>>]
      [] json = "{\"metric\":\"a\"}"  -> [err |-> NoError, Metric |-> <<"a">>]
      [] json = "{\"metric\":\"ab\"}" -> [err |-> NoError, Metric |-> <<"a", "b">>]
      [] OTHER -> [err |-> <<"invalid character 'o' in literal null">>, Metric |-> <<>>]

\* The batches: the host gives the queries of a batch distinct RefIDs.
RefIDs == <<"A", "B", "C", "D">>
Batches ==
    UNION {{[i \in 1..n |-> [RefID |-> RefIDs[i], JSON |-> js[i]]] :
                js \in [1..n -> QueryJSONs]} : n \in 0..MaxQueries}

\* A scan that skips a query it cannot decode instead of failing the batch.
RECURSIVE FirstMetric_skipUndecodable(_)
FirstMetric_skipUndecodable(queries) ==
    IF queries = <<>> THEN [err |-> NoError, metricName |-> <<>>]
    ELSE LET q == UnmarshalQuery(Head(queries).JSON) IN
      IF q.err = NoError /\ q.Metric # <<>>
        THEN [err |-> NoError, metricName |-> q.Metric]
        ELSE FirstMetric_skipUndecodable(Tail(queries))

\* pkg/datasource.go lines 189-201: the loop over the queries, up to the
\* first one that names a metric; a payload that does not decode ends it.
RECURSIVE FirstMetric(_)
FirstMetric(queries) ==
    IF queries = <<>> THEN [err |-> NoError, metricName |-> <<>>]
    ELSE LET q == UnmarshalQuery(Head(queries).JSON) IN
      IF q.err # NoError
        THEN [err |-> Errorf("failed to unmarshal query JSON", q.err), metricName |-> <<>>]
      ELSE IF q.Metric # <<>>
        THEN [err |-> NoError, metricName |-> q.Metric]
        ELSE FirstMetric(Tail(queries))

\* pkg/datasource.go lines 186-206: the metric name of the batch, or the
\* error the call returns before it fetches anything.
ResolveMetric(queries) ==
    LET m == FirstMetric(queries) IN
    IF m.err # NoError THEN m
    ELSE IF m.metricName = <<>>
      THEN [err |-> <<"no metric specified in the query">>, metricName |-> <<>>]
      ELSE m

\* pkg/datasource.go lines 225-235: the value token of the first line that
\* starts with the metric name and has exactly two fields; "" when none.
RECURSIVE ScanLines(_, _)
ScanLines(lines, metricName) ==
    IF lines = <<>> THEN <<>>
    ELSE IF HasPrefix(Head(lines), metricName) /\ Len(Fields(Head(lines))) = 2
      THEN Fields(Head(lines))[2]
      ELSE ScanLines(Tail(lines), metricName)

\* data.NewFrame("metrics", metric_name, metric_value), one row.
NewFrame(metricName, metricValue) ==
    [Name |-> "metrics", metric_name |-> <<metricName>>, metric_value |-> <<metricValue>>]

\* pkg/datasource.go lines 221-255: the document is parsed and the response
\* built, under the one key "default".
ParseMetrics(metricsData, metricName) ==
    LET metricValue == ScanLines(Split(metricsData, Newline), metricName) IN
    IF metricValue = <<>>
      THEN [err |-> <<"metric not found", metricName>>, resp |-> NoResponse]
      ELSE [err |-> NoError,
            resp |-> [isNil |-> FALSE,
                      Responses |-> [k \in {"default"} |->
                          [Frames |-> <<NewFrame(metricName, toFloat(metricValue))>>,
                           Error |-> NoError]]]]

\* pkg/datasource.go lines 210-219 and on: what QueryData returns for what
\* httpClient.Get and io.ReadAll gave.  The status code is not looked at.
QueryDataResult(r, metricName) ==
    IF r.err # ""
      THEN [err |-> Errorf("failed to fetch metrics from endpoint", <<r.err>>),
            resp |-> NoResponse]
    ELSE IF r.readErr
      THEN [err |-> Errorf("failed to read metrics response", <<"unexpected EOF">>),
            resp |-> NoResponse]
      ELSE ParseMetrics(r.Body, metricName)

\* The scrape documents: up to MaxLines lines joined by newlines.  The lines
\* are samples "<name> <value>" of two metrics, one name a prefix of the
\* other, a sample with a timestamp, and the empty line (a document ending
\* in a newline).
SampleNames == {<<"a">>, <<"a", "b">>}
SampleValues == {1, 2}
FormatFloat(v) == <<Digits[v + 1]>>
SampleLine(name, v) == name \o <<Space>> \o FormatFloat(v)
ScrapeLines ==
    {SampleLine(n, v) : n \in SampleNames, v \in SampleValues}
    \cup {<<"a", "b", Space, "1", Space, "9">>, <<>>}

RECURSIVE Join(_, _)
Join(lines, sep) ==
    IF lines = <<>> THEN <<>>
    ELSE IF Len(lines) = 1 THEN Head(lines)
    ELSE Head(lines) \o <<sep>> \o Join(Tail(lines), sep)

ScrapeDocuments ==
    UNION {{Join(ls, Newline) : ls \in [1..n -> ScrapeLines]} : n \in 0..MaxLines}

\* What the scrape endpoint may answer with, and what the transport and the
\* body reader may report.
GetOutcomes(t) ==
    {[NoResult EXCEPT !.err = "connection refused"]}
    \cup (IF frame[t].canceled /\ frame[t].req.ctx = "caller"
            THEN {[NoResult EXCEPT !.err = "context canceled"]} ELSE {})
    \cup {[NoResult EXCEPT !.StatusCode = StatusOK, !.Status = "200 OK", !.readErr = TRUE]}
    \cup {[NoResult EXCEPT !.StatusCode = c, !.Status = StatusLine[c], !.Body = d] :
              c \in {200, 500}, d \in ScrapeDocuments}

\* The one goroutine that issues the queries: calls of QueryData share the
\* transport and the counter only.
Caller == CHOOSE t \in Threads : TRUE

\* QueryData is entered.  pkg/datasource.go: the metric name is resolved and
\* the Get issued (http.Client.Get builds its request with
\* context.Background(); on a nil client it panics before any I/O).
\* unnamed/part_000: every query is counted and an empty "default" entry
\* returned.
QueryData(t, ctx, queries) ==
    /\ pc[t] = "idle"
    /\ ret = NoRet
    /\ ds.exists
    /\ LET f == [EmptyFrame EXCEPT !.inst = ds, !.ctx = ctx, !.batch = queries] IN
       IF program = "part_000"
         THEN /\ queriesTotal + Len(queries) <= MaxCalls * MaxQueries
              /\ queriesTotal' = queriesTotal + Len(queries)
              /\ pc' = pc
              /\ frame' = [frame EXCEPT ![t] = EmptyFrame]
              /\ ret' = [NoRet EXCEPT !.op = "QueryData", !.frame = f,
                            !.resp = [isNil |-> FALSE,
                                      Responses |-> [k \in {"default"} |->
                                          [Frames |-> <<>>, Error |-> NoError]]]]
         ELSE LET m == ResolveMetric(queries) IN
              /\ UNCHANGED queriesTotal
              /\ IF m.err # NoError
                   THEN /\ pc' = pc
                        /\ frame' = [frame EXCEPT ![t] = EmptyFrame]
                        /\ ret' = [NoRet EXCEPT !.op = "QueryData", !.err = m.err,
                                                !.frame = f]
                 ELSE IF ~ds.httpClient
                   THEN /\ pc' = pc
                        /\ frame' = [frame EXCEPT ![t] = EmptyFrame]
                        /\ ret' = [NoRet EXCEPT !.op = "QueryData",
                                      !.panic = "nil pointer dereference",
                                      !.frame = [f EXCEPT !.metricName = m.metricName]]
                   ELSE /\ pc' = [pc EXCEPT ![t] = "Get"]
                        /\ frame' = [frame EXCEPT ![t] =
                              [f EXCEPT !.metricName = m.metricName, !.sent = 1,
                                        !.req = NewRequest("http://172.18.0.2:2112/metrics").req]]
                        /\ ret' = NoRet
    /\ UNCHANGED <<program, registry, registerMetricsOnce, ds,
                   healthCheckTotal, healthCheckDuration>>

\* httpClient.Get returns; the body is read and parsed (pkg/datasource.go).
QueryData_Get(t, r) ==
    /\ pc[t] = "Get"
    /\ r \in GetOutcomes(t)
    /\ LET q == QueryDataResult(r, frame[t].metricName) IN
       /\ pc' = [pc EXCEPT ![t] = "idle"]
       /\ frame' = [frame EXCEPT ![t] = EmptyFrame]
       /\ ret' = [NoRet EXCEPT !.op = "QueryData", !.err = q.err, !.resp = q.resp,
                               !.frame = [frame[t] EXCEPT !.result = r]]
    /\ UNCHANGED <<program, registry, registerMetricsOnce, ds,
                   healthCheckTotal, healthCheckDuration, queriesTotal>>

\* ----------------------------------------------------- query specification

\* The settings of a construction that succeeds.
ValidSettings ==
    {s \in InstanceSettings : BuildError(s) = NoError}

\* The process of pkg/datasource.go after its first construction: the
\* collectors registered, the Once done, the host holding the instance
\* newDataSource returned.
InitQuery ==
    /\ program = "datasource.go"
    /\ registry = {"queriesTotal", "healthCheckTotal", "healthCheckDuration"}
    /\ registerMetricsOnce = [done |-> TRUE, m |-> 0]
    /\ ds \in {BuildInstance(s) : s \in ValidSettings}
    /\ pc = [t \in Threads |-> "idle"]
    /\ frame = [t \in Threads |-> EmptyFrame]
    /\ ret = NoRet
    /\ healthCheckTotal = 0
    /\ healthCheckDuration = 0
    /\ queriesTotal = 0

NextQuery ==
    \/ \E ctx \in Contexts : \E queries \in Batches : QueryData(Caller, ctx, queries)
    \/ \E r \in GetOutcomes(Caller) : QueryData_Get(Caller, r)
    \/ CancelContext(Caller)
    \/ HostReceives

SpecQuery == InitQuery /\ [][NextQuery]_vars

\* ------------------------------------------------- claims on the lifecycle

MessageText(m) == {i \in DOMAIN m : m[i] # ""}
NonEmptyMessage(m) == MessageText(m) # {}

\* The secret bundle of the receiver's settings is absent, or its key empty.
KeyMissing(inst) ==
    /\ ~inst.settings.isNil
    /\ inst.settings.Secrets.isNil \/ inst.settings.Secrets.ApiKey = ""

HoldsApiKey(inst) ==
    /\ inst.exists
    /\ ~inst.settings.isNil
    /\ ~inst.settings.Secrets.isNil
    /\ inst.settings.Secrets.ApiKey # ""

\* The Authorization header CheckHealth builds from the receiver's API key.
Authenticated(f) ==
    /\ HoldsApiKey(f.inst)
    /\ f.req.Authorization =
           [present |-> TRUE, value |-> <<"Bearer ", f.inst.settings.Secrets.ApiKey>>]

MissingKeyMessages ==
    {<<"Missing API key in plugin settings">>, <<"API Key is missing">>}

\* C1: for every response CheckHealth receives, a status code in [200,299]
\* gives the verdict Ok, and any other status code or a transport error
\* gives Error with a non-empty message.
C1_StatusClassification ==
    (ret.op = "CheckHealth" /\ ret.frame.sent = 1) =>
        IF ret.frame.result.err = "" /\ ret.frame.result.StatusCode \in 200..299
          THEN ret.health.Status = "OK"
          ELSE ret.health.Status = "ERROR" /\ NonEmptyMessage(ret.health.Message)

\* C2: a CheckHealth whose receiver has no secret bundle or an empty API key
\* hands no request to the transport and returns the verdict Error; every
\* request CheckHealth does send carries the Authorization header built
\* from a non-empty API key.
C2_NoRequestWithoutKey ==
    /\ \A t \in Threads : pc[t] = "Do" => (frame[t].sent = 1 /\ Authenticated(frame[t]))
    /\ ret.op = "CheckHealth" =>
          /\ ret.frame.sent \in {0, 1}
          /\ ret.frame.sent = 1 => Authenticated(ret.frame)
          /\ ~HoldsApiKey(ret.frame.inst) => ret.frame.sent = 0
          /\ KeyMissing(ret.frame.inst) =>
                /\ ret.frame.sent = 0
                /\ ret.panic = ""
                /\ ret.health.Status = "ERROR"

\* A CheckHealth on a receiver with a transport and settings but no usable
\* key has returned, having reached the API key check.
C2_Witness ==
    /\ ret.op = "CheckHealth"
    /\ KeyMissing(ret.frame.inst)
    /\ ret.frame.inst.httpClient
    /\ ret.frame.ctx = "live"
    /\ ret.frame.sent = 0
    /\ ret.health.Status = "ERROR"
    /\ ret.health.Message \in MissingKeyMessages

\* The number of the first of the seven classification rules that applies
\* to a call with the locals f: (1) settings missing, (2) transport missing,
\* (3) API key missing, (4) the request cannot be built, (5) the transport
\* fails, (6) the status is not 2xx, (7) the status is 2xx.
FirstRule(f) ==
    IF f.inst.settings.isNil THEN 1
    ELSE IF ~f.inst.httpClient THEN 2
    ELSE IF KeyMissing(f.inst) THEN 3
    ELSE IF program = "datasource.go" /\ NewRequestWithContext(f.ctx, "").err # "" THEN 4
    ELSE IF f.result.err # "" THEN 5
    ELSE IF f.result.StatusCode \notin 200..299 THEN 6
    ELSE 7

\* C3: the verdict of every CheckHealth is the one of the first rule, in
\* the stated order, that applies: rules 1 to 4 decide before any request
\* is sent and give Error (rule 3 the "missing API key" Error), rules 5 and
\* 6 give Error, rule 7 gives Ok; the call never panics on its settings.
C3_FirstRuleDecides ==
    ret.op = "CheckHealth" =>
        /\ ret.panic = ""
        /\ (FirstRule(ret.frame) <= 4) = (ret.frame.sent = 0)
        /\ ret.health.Status = IF FirstRule(ret.frame) = 7 THEN "OK" ELSE "ERROR"
        /\ FirstRule(ret.frame) = 3 => ret.health.Message \in MissingKeyMessages

\* The secret map lacks "apiKey" or maps it to the empty string.
SecretMissing(settings) ==
    \/ "apiKey" \notin DOMAIN settings.DecryptedSecureJSONData
    \/ settings.DecryptedSecureJSONData["apiKey"] = ""

\* An instance newDataSource built, wherever the model holds one.
Constructed ==
    {ds} \cup {frame[t].inst : t \in Threads} \cup {ret.inst, ret.frame.inst}

\* C4: for every secret map without "apiKey" or with it empty,
\* LoadPluginSettings returns an error and no settings and newDataSource an
\* error and no instance; every instance newDataSource returns holds
\* settings whose secrets hold a non-empty API key, for as long as it lives.
C4_FailClosed ==
    /\ \A i \in Constructed : i.origin = "newDataSource" => HoldsApiKey(i)
    /\ (ret.op = "newDataSource" /\ ret.err = NoError /\ ret.panic = "") =>
            (ret.inst.origin = "newDataSource" /\ HoldsApiKey(ret.inst))
    /\ (ret.op = "newDataSource" /\ SecretMissing(ret.frame.settings)) =>
            /\ LoadPluginSettings(ret.frame.settings).err # NoError
            /\ LoadPluginSettings(ret.frame.settings).val.isNil
            /\ ret.err # NoError
            /\ ~ret.inst.exists

\* newDataSource has refused settings whose secret was missing, while an
\* instance built by an earlier call is still the host's.
C4_Witness ==
    /\ ret.op = "newDataSource"
    /\ ret.err = <<"failed to load plugin settings",
                   "failed to load secret plugin settings",
                   "apiKey is missing or empty">>
    /\ SecretMissing(ret.frame.settings)
    /\ ret.frame.settings.httpOptions = "ok"
    /\ ~ret.inst.exists
    /\ ds.origin = "newDataSource"
    /\ HoldsApiKey(ds)

\* C10: over any number of constructions, sequential or concurrent, each
\* process-wide counter is registered exactly once: a construction that is
\* past the registration finds every collector registered, and none panics
\* on a duplicate registration.
C10_RegisteredOnce ==
    /\ ret.op = "newDataSource" => ret.panic = ""
    /\ \A t \in Threads : pc[t] = "afterOnce" =>
           \A i \in DOMAIN OnceCollectors : OnceCollectors[i] \in registry

\* --------------------------------------------------- claims on the queries

\* The scrape document was fetched: a response, 2xx, its body read.
Fetched(r) == r.err = "" /\ ~r.readErr /\ r.StatusCode \in 200..299
FetchFailed(r) == r.err # "" \/ r.readErr \/ r.StatusCode \notin 200..299

\* The documents written from pairs (name, value) with distinct names, one
\* pair a line.
SamplePairs == [name : SampleNames, value : SampleValues]
PairLists ==
    {p \in UNION {[1..n -> SamplePairs] : n \in 1..MaxLines} :
        \A i, j \in DOMAIN p : p[i].name = p[j].name => i = j}
WriteDocument(p) == Join([i \in DOMAIN p |-> SampleLine(p[i].name, p[i].value)], Newline)

\* The response holds a one-row frame for the metric with this value.
ReturnsSample(r, name, v) ==
    /\ r.err = NoError
    /\ ~r.resp.isNil
    /\ \E k \in DOMAIN r.resp.Responses :
          /\ Len(r.resp.Responses[k].Frames) = 1
          /\ r.resp.Responses[k].Frames[1].metric_name = <<name>>
          /\ r.resp.Responses[k].Frames[1].metric_value = <<v>>

\* C5: for a scrape document of lines "<name> <value>" with distinct names,
\* QueryData with a name of the document returns the value written on that
\* name's own line, whatever the order of the lines and also when one name
\* is a prefix of another.
C5_OwnLineValue ==
    (ret.op = "QueryData" /\ ret.frame.sent = 1 /\ Fetched(ret.frame.result)) =>
        \A p \in PairLists :
            WriteDocument(p) = ret.frame.result.Body =>
                \A i \in DOMAIN p :
                    p[i].name = ret.frame.metricName =>
                        ReturnsSample(ret, p[i].name, p[i].value)

TransportFailures ==
    {"failed to fetch metrics from endpoint", "failed to read metrics response"}

\* C6: when fetching the scrape document fails (connection error, body read
\* error, non-2xx response), QueryData reports a transport error, never
\* "metric not found" and never a sample.
C6_FetchFailureIsTransportError ==
    (ret.op = "QueryData" /\ ret.frame.sent = 1 /\ FetchFailed(ret.frame.result)) =>
        /\ ret.err # NoError
        /\ Head(ret.err) \in TransportFailures
        /\ ret.resp.isNil

Decodes(q) == UnmarshalQuery(q.JSON).err = NoError
NamesMetric(q) == Decodes(q) /\ UnmarshalQuery(q.JSON).Metric # <<>>
NoMetricNamed(queries) == \A i \in DOMAIN queries : ~NamesMetric(queries[i])
HasUndecodable(queries) == \E i \in DOMAIN queries : ~Decodes(queries[i])
\* A query that does not decode, with no query before it naming a metric.
UndecodableReached(queries) ==
    \E i \in DOMAIN queries :
        /\ ~Decodes(queries[i])
        /\ \A j \in 1..(i - 1) : ~NamesMetric(queries[j])

\* The call was refused before any request went out.
RejectedBeforeFetch(r) ==
    /\ r.frame.sent = 0
    /\ r.panic = ""
    /\ r.err # NoError
    /\ r.resp.isNil

\* C7 as stated: a batch in which no query names a metric gets a batch-level
\* error and no scrape request, and so does every batch holding a query
\* whose payload cannot be decoded.
C7_AnyUndecodableRejected ==
    program = "datasource.go" =>
        /\ \A t \in Threads : pc[t] = "Get" =>
              (~NoMetricNamed(frame[t].batch) /\ ~HasUndecodable(frame[t].batch))
        /\ (/\ ret.op = "QueryData"
            /\ NoMetricNamed(ret.frame.batch) \/ HasUndecodable(ret.frame.batch)) =>
                 RejectedBeforeFetch(ret)

\* C7, amended: a batch (the empty one too) in which no query names a metric
\* gets a batch-level error and no scrape request; a query whose payload
\* cannot be decoded is rejected before any network call when no query
\* before it in the batch names a metric.
C7_RejectedBeforeFetch ==
    program = "datasource.go" =>
        /\ \A t \in Threads : pc[t] = "Get" =>
              (~NoMetricNamed(frame[t].batch) /\ ~UndecodableReached(frame[t].batch))
        /\ (/\ ret.op = "QueryData"
            /\ NoMetricNamed(ret.frame.batch) \/ UndecodableReached(ret.frame.batch)) =>
                 RejectedBeforeFetch(ret)

\* A batch whose first query does not decode and whose second names a
\* metric has been refused, on an instance that has a transport.
C7_Witness ==
    /\ program = "datasource.go"
    /\ ret.op = "QueryData"
    /\ ret.frame.inst.httpClient
    /\ Len(ret.frame.batch) = 2
    /\ ~Decodes(ret.frame.batch[1])
    /\ NamesMetric(ret.frame.batch[2])
    /\ RejectedBeforeFetch(ret)

\* C8: a response envelope holds exactly one entry per incoming query, keyed
\* by the query's own identifier, each entry with exactly one of frame and
\* error.
C8_OneEntryPerQuery ==
    (ret.op = "QueryData" /\ ~ret.resp.isNil) =>
        /\ DOMAIN ret.resp.Responses =
               {ret.frame.batch[i].RefID : i \in DOMAIN ret.frame.batch}
        /\ \A k \in DOMAIN ret.resp.Responses :
               (ret.resp.Responses[k].Frames # <<>>) #
               (ret.resp.Responses[k].Error # NoError)

\* C9: the request of a call in flight is bound to the caller's context, so
\* that once the caller has canceled, the call can return with the
\* cancellation without waiting for the remote end.
C9_BoundToCallerContext ==
    \A t \in Threads : pc[t] \in {"Do", "Get"} =>
        /\ frame[t].ctx = "live" => frame[t].req.ctx = "caller"
        /\ frame[t].canceled =>
              [NoResult EXCEPT !.err = "context canceled"] \in
                  (IF pc[t] = "Do" THEN DoOutcomes(t) ELSE GetOutcomes(t))

====
